---- MODULE Spec2Model ----
(***************************************************************************)
(* EPA CEMS extraction and pipeline coordination of pudl:                  *)
(*   src/src/pudl/extract/epacems.py   (partition, datastore, normaliser)   *)
(*   src/src/pudl/workflow/epacems.py  (validate_params, build, task)       *)
(*                                                                         *)
(* Text is modelled as sequences of one-character strings, so that         *)
(* str.lower(), f-string formatting and concatenation are computed and not *)
(* assumed.  Column names of the CSV headers are atoms (plain strings):    *)
(* the code only ever compares them for equality.                          *)
(***************************************************************************)
EXTENDS Integers, Sequences, FiniteSets, TLC

(***************************************************************************)
(* State.  n_*: the CSV normaliser; m_*: calls of get_monthly_file; x_*:    *)
(* one call of get_data_frame; the rest: a run of the pipeline.            *)
(***************************************************************************)
VARIABLES n_pc, n_csv, n_df, df_again
VARIABLES m_pc, m_partition, m_prev, m_last
VARIABLES x_pc, x_partition, x_desc, x_month, x_open, x_dfs, x_exc, x_result
VARIABLES p_pc, p_etl_params, eia_in_run, p_params, flow_tasks, edges,
          partitions, status, store, reruns, gathered

norm_vars == <<n_pc, n_csv, n_df, df_again>>

stem_vars == <<m_pc, m_partition, m_prev, m_last>>

extract_vars == <<x_pc, x_partition, x_desc, x_month, x_open, x_dfs, x_exc, x_result>>

pipe_vars == <<p_pc, p_etl_params, eia_in_run, p_params, flow_tasks, edges,
               partitions, status, store, reruns, gathered>>

vars == <<norm_vars, stem_vars, extract_vars, pipe_vars>>

(***************************************************************************)
(* Bounds of the model.                                                    *)
(***************************************************************************)
MaxYears == 2
MaxStates == 2
MaxReruns == 1
MaxTasks == 4
MaxMonth == 14

(***************************************************************************)
(* Text helpers.                                                           *)
(***************************************************************************)
UpperLetters ==
    <<"A","B","C","D","E","F","G","H","I","J","K","L","M",
      "N","O","P","Q","R","S","T","U","V","W","X","Y","Z">>
LowerLetters ==
    <<"a","b","c","d","e","f","g","h","i","j","k","l","m",
      "n","o","p","q","r","s","t","u","v","w","x","y","z">>

LowerChar(c) ==
    IF \E i \in 1..26 : UpperLetters[i] = c
    THEN LowerLetters[CHOOSE i \in 1..26 : UpperLetters[i] = c]
    ELSE c

\* str.lower()
Lower(s) == [i \in 1..Len(s) |-> LowerChar(s[i])]

DigitChars == <<"0","1","2","3","4","5","6","7","8","9">>

\* str(n) for a non-negative integer n
RECURSIVE Digits(_)
Digits(n) ==
    IF n < 10 THEN <<DigitChars[n + 1]>>
    ELSE Digits(n \div 10) \o <<DigitChars[(n % 10) + 1]>>

\* format(n, "02"): the sign, then the digits filled with zeros to a width
\* of two characters, sign included
Pad2(n) ==
    IF n < 0 THEN <<"-">> \o Digits(0 - n)
    ELSE IF n < 10 THEN <<"0">> \o Digits(n)
    ELSE Digits(n)

SeqToSet(s) == {s[i] : i \in 1..Len(s)}

\* all sequences over S of length at most n
SeqsUpTo(S, n) == UNION {[1..k -> S] : k \in 0..n}

\* number of positions of s holding x
Occurrences(s, x) == Cardinality({i \in 1..Len(s) : s[i] = x})

(***************************************************************************)
(* Configuration values the model draws from.                              *)
(***************************************************************************)
ID == <<"I","D">>
TX == <<"T","X">>
id == <<"i","d">>
all == <<"a","l","l">>
All == <<"A","l","l">>

ConfigYears == {2019, 2020}
ConfigStates == {ID, id, all, All}

\* pudl.constants.cems_states: the registry of known state codes (its keys),
\* here with two codes; sorted(pc.cems_states.keys()) is cems_states_sorted.
cems_states == {ID, TX}
cems_states_sorted == <<ID, TX>>

\* pudl.constants.PUDL_TABLES["epacems"]
PUDL_TABLES_epacems == "hourly_emissions_epacems"

(***************************************************************************)
(* EpaCemsPartition                                                        *)
(***************************************************************************)
EpaCemsPartition(year, state) == [year |-> year, state |-> state]

get_key(p) == <<p.year, Lower(p.state)>>

get_filters(p) == [year |-> p.year, state |-> Lower(p.state)]

\* the stem with the month as it is, without the fill to two digits
get_monthly_file_unpadded(p, month) ==
    Digits(p.year) \o Lower(p.state)
        \o (IF month < 0 THEN <<"-">> \o Digits(0 - month) ELSE Digits(month))

get_monthly_file(p, month) == Digits(p.year) \o Lower(p.state) \o Pad2(month)

\* the mapping key without the year
mapping_key_state_only(p) == p.state

\* mapping_key=f"{state}{year}" of gather_partitions
mapping_key(p) == p.state \o Digits(p.year)

\* target="epacems-{partition}": the template is filled with str(partition),
\* "EpaCemsPartition(year=2020, state='ID')"
task_target(p) ==
    <<"e","p","a","c","e","m","s","-">> \o <<"(">> \o Digits(p.year)
        \o <<",","'">> \o p.state \o <<"'",")">>

(***************************************************************************)
(* Partition enumeration                                                   *)
(***************************************************************************)
\* the inner loop of gather_partitions: one partition per state, in order
RECURSIVE gather_states(_, _)
gather_states(year, states) ==
    IF states = <<>> THEN <<>>
    ELSE <<EpaCemsPartition(year, Head(states))>>
             \o gather_states(year, Tail(states))

\* gather_partitions: for year in years: for state in states: yield
RECURSIVE gather_partitions(_, _)
gather_partitions(years, states) ==
    IF years = <<>> THEN <<>>
    ELSE gather_states(Head(years), states)
             \o gather_partitions(Tail(years), states)

\* both indices advance together, as zip over the repeated lists would
itertools_product_lockstep(years, states) ==
    [k \in 1..(Len(years) * Len(states)) |->
        <<years[((k - 1) % Len(years)) + 1],
          states[((k - 1) % Len(states)) + 1]>>]

\* itertools.product(years, states): the rightmost index advances fastest
itertools_product(years, states) ==
    [k \in 1..(Len(years) * Len(states)) |->
        <<years[((k - 1) \div Len(states)) + 1],
          states[((k - 1) % Len(states)) + 1]>>]

\* the list comprehension of EpaCemsPipeline.build
build_partitions(params) ==
    LET prod == itertools_product(params.epacems_years, params.epacems_states)
    IN  [k \in 1..Len(prod) |-> EpaCemsPartition(prod[k][1], prod[k][2])]

(***************************************************************************)
(* validate_params                                                         *)
(***************************************************************************)
\* dict.get(key, default)
Get(d, k, default) == IF k \in DOMAIN d THEN d[k] ELSE default

NoPartition == [t \in {} |-> <<>>]

\* the scheme validate_params hard-codes
FixedPartition ==
    [t \in {"hourly_emissions_epacems"} |-> <<"epacems_years", "epacems_states">>]

\* _validate_params_partition(etl_params_og, tables), etl_params_og given by
\* its key set and the value under 'partition'.  Result: raised is TRUE when
\* the AssertionError 'Partion not recognized' leaves the function.
validate_params_partition(keys, partition_dict, tables) ==
    IF "partition" \notin keys
    THEN [raised |-> FALSE, truthy |-> TRUE, value |-> NoPartition]
    ELSE IF \E t \in tables : t \in DOMAIN partition_dict
                /\ \E i \in 1..Len(partition_dict[t]) :
                       partition_dict[t][i] \notin keys
         THEN [raised |-> TRUE, truthy |-> FALSE, value |-> NoPartition]
         ELSE [raised |-> FALSE,
               truthy |-> DOMAIN partition_dict # {},
               value |-> partition_dict]

\* the "all" test without .lower()
expand_states_exact_case(states) ==
    IF states # <<>> /\ states[1] = all
    THEN cems_states_sorted
    ELSE states

\* states after the "all" test of validate_params
expand_states(states) ==
    IF states # <<>> /\ Lower(states[1]) = all
    THEN cems_states_sorted
    ELSE states

NoneParams ==
    [raised |-> FALSE, none |-> TRUE, epacems_years |-> <<>>,
     epacems_states |-> <<>>, partition |-> NoPartition]

RaisedParams == [NoneParams EXCEPT !.raised = TRUE]

\* validate_params without the test for an empty list
validate_params_keeps_empty(etl_params) ==
    LET years == Get(etl_params, "epacems_years", <<>>)
        states == expand_states(Get(etl_params, "epacems_states", <<>>))
    IN  [raised |-> FALSE, none |-> FALSE, epacems_years |-> years,
         epacems_states |-> states, partition |-> FixedPartition]

\* validate_params that validates the partition scheme the settings declare
\* instead of the hard-coded one
validate_params_declared_scheme(etl_params) ==
    LET years == Get(etl_params, "epacems_years", <<>>)
        states == expand_states(Get(etl_params, "epacems_states", <<>>))
        keys == {"epacems_years", "epacems_states", "partition"}
        part == validate_params_partition(
                    keys, Get(etl_params, "partition", FixedPartition),
                    {PUDL_TABLES_epacems})
    IN  IF part.raised \/ ~part.truthy THEN RaisedParams
        ELSE IF years = <<>> \/ states = <<>> THEN NoneParams
        ELSE [raised |-> FALSE, none |-> FALSE, epacems_years |-> years,
              epacems_states |-> states, partition |-> part.value]

\* EpaCemsPipeline.validate_params(etl_params)
validate_params(etl_params) ==
    LET years == Get(etl_params, "epacems_years", <<>>)
        states == expand_states(Get(etl_params, "epacems_states", <<>>))
        keys == {"epacems_years", "epacems_states", "partition"}
        part == validate_params_partition(keys, FixedPartition,
                                          {PUDL_TABLES_epacems})
    IN  IF part.raised \/ ~part.truthy THEN RaisedParams
        ELSE IF years = <<>> \/ states = <<>> THEN NoneParams
        ELSE [raised |-> FALSE, none |-> FALSE, epacems_years |-> years,
              epacems_states |-> states, partition |-> part.value]

\* the outcome of the validation state machine
validation_outcome(params) ==
    IF params.raised THEN "rejected"
    ELSE IF params.none THEN "empty"
    ELSE "valid-with-partitions"

\* DatasetPipeline.all_params_present(params, required): every required
\* parameter is defined and non-empty
all_params_present(params) ==
    /\ ~params.none
    /\ params.epacems_years # <<>>
    /\ params.epacems_states # <<>>

(***************************************************************************)
(* CSV normaliser                                                          *)
(***************************************************************************)
RenamePairs ==
    << <<"STATE", "state">>,
       <<"ORISPL_CODE", "plant_id_eia">>,
       <<"UNITID", "unitid">>,
       <<"OP_DATE", "op_date">>,
       <<"OP_HOUR", "op_hour">>,
       <<"OP_TIME", "operating_time_hours">>,
       <<"GLOAD (MW)", "gross_load_mw">>,
       <<"GLOAD", "gross_load_mw">>,
       <<"SLOAD (1000 lbs)", "steam_load_1000_lbs">>,
       <<"SLOAD (1000lb/hr)", "steam_load_1000_lbs">>,
       <<"SLOAD", "steam_load_1000_lbs">>,
       <<"SO2_MASS (lbs)", "so2_mass_lbs">>,
       <<"SO2_MASS", "so2_mass_lbs">>,
       <<"SO2_MASS_MEASURE_FLG", "so2_mass_measurement_code">>,
       <<"NOX_RATE (lbs/mmBtu)", "nox_rate_lbs_mmbtu">>,
       <<"NOX_RATE", "nox_rate_lbs_mmbtu">>,
       <<"NOX_RATE_MEASURE_FLG", "nox_rate_measurement_code">>,
       <<"NOX_MASS (lbs)", "nox_mass_lbs">>,
       <<"NOX_MASS", "nox_mass_lbs">>,
       <<"NOX_MASS_MEASURE_FLG", "nox_mass_measurement_code">>,
       <<"CO2_MASS (tons)", "co2_mass_tons">>,
       <<"CO2_MASS", "co2_mass_tons">>,
       <<"CO2_MASS_MEASURE_FLG", "co2_mass_measurement_code">>,
       <<"HEAT_INPUT (mmBtu)", "heat_content_mmbtu">>,
       <<"HEAT_INPUT", "heat_content_mmbtu">>,
       <<"FAC_ID", "facility_id">>,
       <<"UNIT_ID", "unit_id_epa">> >>

\* a table in which the spelling with the unit is renamed to the spelling
\* without it
RENAME_DICT_chained ==
    [k \in {RenamePairs[i][1] : i \in 1..Len(RenamePairs)} |->
        IF k = "GLOAD (MW)" THEN "GLOAD"
        ELSE RenamePairs[CHOOSE i \in 1..Len(RenamePairs) : RenamePairs[i][1] = k][2]]

RENAME_DICT ==
    [k \in {RenamePairs[i][1] : i \in 1..Len(RenamePairs)} |->
        RenamePairs[CHOOSE i \in 1..Len(RenamePairs) : RenamePairs[i][1] = k][2]]

IGNORE_COLS ==
    {"FACILITY_NAME",
     "SO2_RATE (lbs/mmBtu)",
     "SO2_RATE",
     "SO2_RATE_MEASURE_FLG",
     "CO2_RATE (tons/mmBtu)",
     "CO2_RATE",
     "CO2_RATE_MEASURE_FLG"}

\* a column filter that knows only the spellings with a unit
usecols_unit_spellings(col) == col \notin (IGNORE_COLS \ {"SO2_RATE", "CO2_RATE"})

\* usecols=lambda col: col not in IGNORE_COLS
usecols(col) == col \notin IGNORE_COLS

\* the columns pd.read_csv keeps, in header order
read_csv_columns(header) == SelectSeq(header, usecols)

\* DataFrame.rename(columns=RENAME_DICT) on the column index
rename_columns(columns) ==
    [i \in 1..Len(columns) |->
        IF columns[i] \in DOMAIN RENAME_DICT THEN RENAME_DICT[columns[i]]
        ELSE columns[i]]

\* EpaCemsDatastore._csv_to_dataframe(csv_file); csv_file is given by its
\* header, its rows and whether every value casts to the declared dtype
\* (astype raises otherwise).
csv_to_dataframe(csv_file) ==
    IF ~csv_file.castable
    THEN [raised |-> TRUE, columns |-> <<>>, rows |-> <<>>]
    ELSE [raised |-> FALSE,
          columns |-> rename_columns(read_csv_columns(csv_file.header)),
          rows |-> csv_file.rows]

(***************************************************************************)
(* The normaliser as a state machine: a CSV file is read into a frame      *)
(* (NormalizeCsv), and the rename is applied to the frame a second time    *)
(* (RenameAgain).                                                          *)
(***************************************************************************)

MaxCols == 2
MaxRows == 2

\* the column names a header is drawn from: every key of RENAME_DICT, every
\* ignored column, a column the tables do not know and a canonical name
ColumnUniverse ==
    DOMAIN RENAME_DICT \cup IGNORE_COLS \cup {"UNKNOWN_COL", "gross_load_mw"}

\* header rows: pd.read_csv makes repeated names distinct, so a header has
\* no repeated column name
Headers ==
    {h \in SeqsUpTo(ColumnUniverse, MaxCols) :
        \A i, j \in 1..Len(h) : h[i] = h[j] => i = j}

NoFrame == [raised |-> FALSE, columns |-> <<>>, rows |-> <<>>]
NoCsv == [header |-> <<>>, rows |-> <<>>, castable |-> TRUE]

NormInit ==
    /\ n_pc = "idle"
    /\ n_csv = NoCsv
    /\ n_df = NoFrame
    /\ df_again = <<>>

NormalizeCsv ==
    /\ n_pc = "idle"
    /\ \E header \in Headers, n \in 0..MaxRows, castable \in BOOLEAN :
          /\ n_csv' = [header |-> header,
                       rows |-> [i \in 1..n |-> <<1, i>>],
                       castable |-> castable]
          /\ n_df' = csv_to_dataframe(n_csv')
    /\ n_pc' = "normalized"
    /\ df_again' = <<>>
    /\ UNCHANGED <<stem_vars, extract_vars, pipe_vars>>

RenameAgain ==
    /\ n_pc = "normalized"
    /\ ~n_df.raised
    /\ df_again' = rename_columns(n_df.columns)
    /\ n_pc' = "renamed_again"
    /\ UNCHANGED <<n_csv, n_df>>
    /\ UNCHANGED <<stem_vars, extract_vars, pipe_vars>>

NormNext == NormalizeCsv \/ RenameAgain


\* the header positions pd.read_csv keeps
KeptPositions == {i \in 1..Len(n_csv.header) : n_csv.header[i] \notin IGNORE_COLS}

\* C8: after _csv_to_dataframe, no column of the frame carries the name of an
\* ignore-list column, and the frame has exactly one column per header column
\* that is not on the ignore list, so an ignored column is not in the frame
\* under any name.
C8_IgnoredColumnsExcluded ==
    (n_pc # "idle" /\ ~n_df.raised) =>
        /\ \A i \in 1..Len(n_df.columns) : n_df.columns[i] \notin IGNORE_COLS
        /\ Len(n_df.columns) = Cardinality(KeptPositions)
        /\ n_df.rows = n_csv.rows

C8_Witness ==
    /\ n_pc = "normalized"
    /\ ~n_df.raised
    /\ n_csv.header = <<"SO2_RATE", "GLOAD">>
    /\ n_csv.rows # <<>>
    /\ n_df.columns = <<"gross_load_mw">>

\* the historical spellings that carry a unit suffix " (unit)", with the
\* spelling without it
UnitSpellings ==
    {<<"GLOAD (MW)", "GLOAD">>,
     <<"SLOAD (1000 lbs)", "SLOAD">>,
     <<"SLOAD (1000lb/hr)", "SLOAD">>,
     <<"SO2_MASS (lbs)", "SO2_MASS">>,
     <<"NOX_RATE (lbs/mmBtu)", "NOX_RATE">>,
     <<"NOX_MASS (lbs)", "NOX_MASS">>,
     <<"CO2_MASS (tons)", "CO2_MASS">>,
     <<"HEAT_INPUT (mmBtu)", "HEAT_INPUT">>}

\* the quantity a raw column name spells: the name without its unit suffix
QuantityOf(col) ==
    IF \E u \in UnitSpellings : u[1] = col
    THEN (CHOOSE u \in UnitSpellings : u[1] = col)[2]
    ELSE col

\* C9: renaming a frame that was already renamed changes nothing, and two
\* columns of a header that spell the same quantity get the same canonical
\* name.
C9_RenameIdempotentSynonyms ==
    /\ n_pc = "renamed_again" => df_again = n_df.columns
    /\ (n_pc # "idle" /\ ~n_df.raised) =>
          LET kept == read_csv_columns(n_csv.header)
          IN  /\ Len(n_df.columns) = Len(kept)
              /\ \A i, j \in 1..Len(kept) :
                    QuantityOf(kept[i]) = QuantityOf(kept[j])
                        => n_df.columns[i] = n_df.columns[j]

C9_Witness ==
    /\ n_pc = "renamed_again"
    /\ n_csv.header = <<"GLOAD", "GLOAD (MW)">>
    /\ n_df.columns = <<"gross_load_mw", "gross_load_mw">>
    /\ df_again = n_df.columns

(***************************************************************************)
(* The datastore: one archive per (year, lower-case state) of the          *)
(* registry; an archive holds twelve monthly zips named                    *)
(* {year}{state}{month:02}.zip, each holding {year}{state}{month:02}.csv.  *)
(* A zip file is the set of its members, each a name with its content: an  *)
(* archive has monthly zips as members, a monthly zip has CSV files.       *)
(***************************************************************************)
NumMonths == 12

OldHeader == <<"STATE", "ORISPL_CODE", "GLOAD", "SO2_RATE", "FACILITY_NAME">>
NewHeader == <<"STATE", "ORISPL_CODE", "GLOAD (MW)", "SO2_RATE (lbs/mmBtu)", "FAC_ID">>

NoFault == [kind |-> "none", month |-> 0]

Faults ==
    {NoFault} \cup
    [kind : {"no_zip", "no_csv", "bad_value"}, month : 1..NumMonths]

\* what distinguishes the archives of the model: the rows of the odd and of
\* the even months, the month from which the files use the new header, and
\* at most one fault
ArchiveDescs ==
    [rows_odd : 0..MaxRows, rows_even : 0..MaxRows,
     switch : {1, 7, NumMonths + 1}, fault : Faults]

GoodDesc == [rows_odd |-> 1, rows_even |-> 2, switch |-> 7, fault |-> NoFault]

archive_stem(year, lstate, m) == Digits(year) \o lstate \o Pad2(m)

month_csv(d, m) ==
    [header |-> IF m < d.switch THEN OldHeader ELSE NewHeader,
     rows |-> [i \in 1..(IF m % 2 = 1 THEN d.rows_odd ELSE d.rows_even) |-> <<m, i>>],
     castable |-> ~(d.fault.kind = "bad_value" /\ d.fault.month = m)]

monthly_zip(year, lstate, d, m) ==
    IF d.fault.kind = "no_csv" /\ d.fault.month = m
    THEN {}
    ELSE {[name |-> archive_stem(year, lstate, m) \o <<".csv">>,
           content |-> month_csv(d, m)]}

make_archive(year, lstate, d) ==
    {[name |-> archive_stem(year, lstate, m) \o <<".zip">>,
      content |-> monthly_zip(year, lstate, d, m)] :
        m \in {k \in 1..NumMonths : ~(d.fault.kind = "no_zip" /\ d.fault.month = k)}}

\* the names of the members of a zip file, and ZipFile.open(name) on a name
\* that is among them
namelist(zip) == {e.name : e \in zip}
zip_open(zip, name) == (CHOOSE e \in zip : e.name = name).content

\* the resources of the datastore
resource_keys == {<<y, Lower(s)>> : y \in ConfigYears, s \in cems_states}

\* Datastore.get_zipfile_resource("epacems", year=..., state=...): the
\* archive of the resource the filters select; found is FALSE when there is
\* no such resource.  desc_of gives the archive description of each key.
get_zipfile_resource(desc_of, filters) ==
    IF <<filters.year, filters.state>> \in resource_keys
    THEN [found |-> TRUE,
          archive |-> make_archive(filters.year, filters.state,
                                   desc_of[<<filters.year, filters.state>>])]
    ELSE [found |-> FALSE, archive |-> {}]

\* Path.with_suffix(suffix) on a stem without a dot
with_suffix(stem, suffix) == stem \o <<suffix>>

(***************************************************************************)
(* EpaCemsDatastore.get_data_frame                                         *)
(***************************************************************************)
\* pd.concat(dfs, sort=True, copy=False, ignore_index=True): the rows of the
\* frames in order, over the union of their columns
RECURSIVE concat_rows(_)
concat_rows(dfs) ==
    IF dfs = <<>> THEN <<>> ELSE Head(dfs).rows \o concat_rows(Tail(dfs))

\* a concatenation that keeps only the columns all frames share (join="inner")
concat_inner(dfs) ==
    [column_set |-> {c \in UNION {SeqToSet(dfs[i].columns) : i \in 1..Len(dfs)} :
                        \A i \in 1..Len(dfs) : c \in SeqToSet(dfs[i].columns)},
     rows |-> concat_rows(dfs)]

concat(dfs) ==
    [column_set |-> UNION {SeqToSet(dfs[i].columns) : i \in 1..Len(dfs)},
     rows |-> concat_rows(dfs)]

NoDataset == [column_set |-> {}, rows |-> <<>>]

\* what is read from the CSV file of a month: the normalised frame, or the
\* exception astype raises
frame_read(r) ==
    IF r.raised THEN [exc |-> "SchemaViolation", frame |-> NoFrame]
    ELSE [exc |-> "none", frame |-> r]

\* ZipFile(mzip).open(<stem>.csv) and the read of the file it gives
read_monthly_zip(mzip, cname) ==
    IF cname \notin namelist(mzip)
    THEN [exc |-> "MissingMonthlyFile", frame |-> NoFrame]
    ELSE frame_read(csv_to_dataframe(zip_open(mzip, cname)))

\* archive.open(<stem>.zip) and what is read from the monthly zip
read_month(archive, zname, cname) ==
    IF zname \notin namelist(archive)
    THEN [exc |-> "MissingMonthlyFile", frame |-> NoFrame]
    ELSE read_monthly_zip(zip_open(archive, zname), cname)

\* a loop body that passes over a month whose zip is not in the archive
month_frame_skips_missing(archive, partition, month) ==
    IF with_suffix(get_monthly_file(partition, month), ".zip") \notin namelist(archive)
    THEN [exc |-> "none", frame |-> NoFrame]
    ELSE read_month(archive,
                    with_suffix(get_monthly_file(partition, month), ".zip"),
                    with_suffix(get_monthly_file(partition, month), ".csv"))

\* one pass of the body of the month loop: exc is "none" and frame the
\* normalised frame, or exc names the exception that leaves the loop
month_frame(archive, partition, month) ==
    read_month(archive,
               with_suffix(get_monthly_file(partition, month), ".zip"),
               with_suffix(get_monthly_file(partition, month), ".csv"))

\* the loop "for month in range(1, 13)" from month on, dfs collected so far;
\* loop_step goes on after the body of a month has given r
RECURSIVE month_loop(_, _, _, _)
RECURSIVE loop_step(_, _, _, _, _)
loop_step(archive, partition, month, dfs, r) ==
    IF r.exc # "none" THEN [exc |-> r.exc, dfs |-> dfs]
    ELSE month_loop(archive, partition, month + 1, Append(dfs, r.frame))

month_loop(archive, partition, month, dfs) ==
    IF month > NumMonths THEN [exc |-> "none", dfs |-> dfs]
    ELSE loop_step(archive, partition, month, dfs,
                   month_frame(archive, partition, month))

\* return pd.concat(dfs, ...) after a loop no exception has left
loop_result(l) ==
    IF l.exc # "none" THEN [exc |-> l.exc, value |-> NoDataset]
    ELSE [exc |-> "none", value |-> concat(l.dfs)]

\* the month loop on the archive the datastore has given
frame_of_resource(res, partition) ==
    IF ~res.found THEN [exc |-> "ResourceUnavailable", value |-> NoDataset]
    ELSE loop_result(month_loop(res.archive, partition, 1, <<>>))

\* get_data_frame(partition) on the datastore described by desc_of
get_data_frame(desc_of, partition) ==
    frame_of_resource(get_zipfile_resource(desc_of, get_filters(partition)),
                      partition)

(***************************************************************************)
(* get_data_frame step by step: the archive is fetched, then for each      *)
(* month the monthly zip is opened, the CSV in it is opened and read, the  *)
(* with-blocks are left (the CSV handle, then the monthly-zip handle), and *)
(* after month 12 the frames are concatenated.                             *)
(***************************************************************************)

ExtractPartitions == {EpaCemsPartition(2020, s) : s \in {ID, id, all}}

x_desc_of == [k \in resource_keys |-> x_desc]

x_archive == get_zipfile_resource(x_desc_of, get_filters(x_partition)).archive

ExtractInit ==
    /\ x_pc = "idle"
    /\ x_partition = EpaCemsPartition(2020, ID)
    /\ x_desc = GoodDesc
    /\ x_month = 0
    /\ x_open = {}
    /\ x_dfs = <<>>
    /\ x_exc = "none"
    /\ x_result = NoDataset

\* archive = self.datastore.get_zipfile_resource("epacems", **filters)
GetArchive ==
    /\ x_pc = "idle"
    /\ \E partition \in ExtractPartitions, d \in ArchiveDescs :
          /\ x_partition' = partition
          /\ x_desc' = d
          /\ IF get_zipfile_resource([k \in resource_keys |-> d],
                                     get_filters(partition)).found
             THEN /\ x_pc' = "loop"
                  /\ x_open' = {"archive"}
                  /\ x_exc' = "none"
             ELSE /\ x_pc' = "raised"
                  /\ x_open' = {}
                  /\ x_exc' = "ResourceUnavailable"
    /\ x_month' = 1
    /\ UNCHANGED <<x_dfs, x_result>>
    /\ UNCHANGED <<norm_vars, stem_vars, pipe_vars>>

\* with archive.open(str(mf.with_suffix(".zip")), "r") as mzip
OpenMonthlyZip ==
    /\ x_pc = "loop"
    /\ x_month <= NumMonths
    /\ LET zname == with_suffix(get_monthly_file(x_partition, x_month), ".zip")
       IN  IF zname \in namelist(x_archive)
           THEN /\ x_pc' = "mzip_open"
                /\ x_open' = x_open \cup {"mzip"}
                /\ x_exc' = x_exc
           ELSE /\ x_pc' = "raised"
                /\ x_open' = x_open
                /\ x_exc' = "MissingMonthlyFile"
    /\ UNCHANGED <<x_partition, x_desc, x_month, x_dfs, x_result>>
    /\ UNCHANGED <<norm_vars, stem_vars, pipe_vars>>

\* with ZipFile(mzip, "r").open(str(mf.with_suffix(".csv")), "r") as csv_file
OpenCsv ==
    /\ x_pc = "mzip_open"
    /\ LET mf == get_monthly_file(x_partition, x_month)
           mzip == zip_open(x_archive, with_suffix(mf, ".zip"))
       IN  IF with_suffix(mf, ".csv") \in namelist(mzip)
           THEN /\ x_pc' = "csv_open"
                /\ x_open' = x_open \cup {"monthly_zipfile", "csv"}
                /\ x_exc' = x_exc
           ELSE /\ x_pc' = "exit_mzip"
                /\ x_open' = x_open \cup {"monthly_zipfile"}
                /\ x_exc' = "MissingMonthlyFile"
    /\ UNCHANGED <<x_partition, x_desc, x_month, x_dfs, x_result>>
    /\ UNCHANGED <<norm_vars, stem_vars, pipe_vars>>

\* dfs.append(self._csv_to_dataframe(csv_file))
ReadCsv ==
    /\ x_pc = "csv_open"
    /\ LET mf == get_monthly_file(x_partition, x_month)
           r == csv_to_dataframe(zip_open(zip_open(x_archive, with_suffix(mf, ".zip")),
                                          with_suffix(mf, ".csv")))
       IN  IF r.raised
           THEN /\ x_exc' = "SchemaViolation"
                /\ x_dfs' = x_dfs
           ELSE /\ x_exc' = x_exc
                /\ x_dfs' = Append(x_dfs, r)
    /\ x_pc' = "exit_csv"
    /\ UNCHANGED <<x_partition, x_desc, x_month, x_open, x_result>>
    /\ UNCHANGED <<norm_vars, stem_vars, pipe_vars>>

\* the inner with-block is left: csv_file is closed
CloseCsv ==
    /\ x_pc = "exit_csv"
    /\ x_open' = x_open \ {"csv"}
    /\ x_pc' = "exit_mzip"
    /\ UNCHANGED <<x_partition, x_desc, x_month, x_dfs, x_exc, x_result>>
    /\ UNCHANGED <<norm_vars, stem_vars, pipe_vars>>

\* the outer with-block is left: mzip is closed; the loop goes on, or the
\* exception leaves get_data_frame
CloseMonthlyZip ==
    /\ x_pc = "exit_mzip"
    /\ x_open' = x_open \ {"mzip"}
    /\ IF x_exc = "none"
       THEN /\ x_pc' = "loop"
            /\ x_month' = x_month + 1
       ELSE /\ x_pc' = "raised"
            /\ x_month' = x_month
    /\ UNCHANGED <<x_partition, x_desc, x_dfs, x_exc, x_result>>
    /\ UNCHANGED <<norm_vars, stem_vars, pipe_vars>>

\* return pd.concat(dfs, sort=True, copy=False, ignore_index=True)
ConcatFrames ==
    /\ x_pc = "loop"
    /\ x_month > NumMonths
    /\ x_result' = concat(x_dfs)
    /\ x_pc' = "returned"
    /\ UNCHANGED <<x_partition, x_desc, x_month, x_open, x_dfs, x_exc>>
    /\ UNCHANGED <<norm_vars, stem_vars, pipe_vars>>

ExtractNext ==
    \/ GetArchive
    \/ OpenMonthlyZip
    \/ OpenCsv
    \/ ReadCsv
    \/ CloseCsv
    \/ CloseMonthlyZip
    \/ ConcatFrames

RECURSIVE SumRows(_)
SumRows(dfs) == IF dfs = <<>> THEN 0 ELSE Len(Head(dfs).rows) + SumRows(Tail(dfs))

\* the rows of the twelve monthly CSV files of the archive read
SourceRows == UNION {SeqToSet(month_csv(x_desc, m).rows) : m \in 1..NumMonths}

\* the step-by-step run returns what get_data_frame computes
ExtractAgrees ==
    /\ x_pc = "returned" =>
          get_data_frame(x_desc_of, x_partition) = [exc |-> "none", value |-> x_result]
    /\ x_pc = "raised" =>
          get_data_frame(x_desc_of, x_partition) = [exc |-> x_exc, value |-> NoDataset]

\* C10: the dataset get_data_frame returns has as many rows as its twelve
\* monthly frames together, every row of every monthly file exactly once,
\* and its columns are the union of the columns of the monthly frames.
C10_AggregationPreservesRows ==
    x_pc = "returned" =>
        /\ Len(x_dfs) = NumMonths
        /\ Len(x_result.rows) = SumRows(x_dfs)
        /\ SeqToSet(x_result.rows) = SourceRows
        /\ \A i, j \in 1..Len(x_result.rows) :
              x_result.rows[i] = x_result.rows[j] => i = j
        /\ x_result.column_set =
              UNION {SeqToSet(x_dfs[i].columns) : i \in 1..Len(x_dfs)}

C10_Witness ==
    /\ x_pc = "returned"
    /\ x_desc.switch = 7
    /\ x_desc.rows_odd = 1
    /\ x_desc.rows_even = 2
    /\ Len(x_result.rows) = 18
    /\ x_result.column_set =
          {"state", "plant_id_eia", "gross_load_mw", "facility_id"}

(***************************************************************************)
(* The pipeline: validate_params, build, and the run of the task graph     *)
(* that build declares.                                                    *)
(***************************************************************************)

\* a declared partition scheme other than the fixed one: it names a
\* parameter key that does not exist
OtherPartition ==
    [t \in {"hourly_emissions_epacems"} |-> <<"epacems_years", "plant_id_eia">>]

NoDict == [k \in {} |-> <<>>]

\* the settings of a run: any of the three keys may be absent
EtlParams ==
    {[k \in ks |->
        CASE k = "epacems_years" -> y
          [] k = "epacems_states" -> s
          [] OTHER -> pt] :
        ks \in SUBSET {"epacems_years", "epacems_states", "partition"},
        y \in SeqsUpTo(ConfigYears, MaxYears),
        s \in SeqsUpTo(ConfigStates, MaxStates),
        pt \in {FixedPartition, OtherPartition}}

\* the datastore of the runs: the archive of Idaho for 2020 lacks the monthly
\* zip of July, the other archives are whole
PipeDesc == [rows_odd |-> 1, rows_even |-> 0, switch |-> 7, fault |-> NoFault]
BadDesc == [PipeDesc EXCEPT !.fault = [kind |-> "no_zip", month |-> 7]]
bad_key == <<2020, id>>
desc_of == [k \in resource_keys |-> IF k = bad_key THEN BadDesc ELSE PipeDesc]

\* the settings the runs of the flow are drawn from: both lists are given, no
\* partition scheme is declared, and at most MaxTasks partitions result
RunEtlParams ==
    {e \in EtlParams :
        /\ DOMAIN e = {"epacems_years", "epacems_states"}
        /\ Len(e["epacems_years"]) * Len(expand_states(e["epacems_states"])) <= MaxTasks}

\* tasks of the flow
DfsToSqlite == <<"dfs_to_sqlite", 0>>
Plants == <<"load_plant_utc_offset", 0>>
PartitionTask(i) == <<"epacems_process_partition", i>>

\* flow.get_tasks(name=...)
get_tasks(tasks, name) == {t \in tasks : t[1] = name}

PipeInit ==
    /\ p_pc = "unvalidated"
    /\ p_etl_params = NoDict
    /\ eia_in_run = FALSE
    /\ p_params = NoneParams
    /\ flow_tasks = {}
    /\ edges = {}
    /\ partitions = <<>>
    /\ status = [t \in {} |-> "pending"]
    /\ store = [k \in {} |-> NoDataset]
    /\ reruns = 0
    /\ gathered = <<>>

\* EpaCemsPipeline.validate_params on the settings of a run.  The run has EIA
\* among its datasets or not; when it has, the EIA pipeline has put its
\* dfs_to_sqlite task into the flow.
ValidateParamsOf(settings) ==
    /\ p_pc = "unvalidated"
    /\ \E e \in settings, eia \in BOOLEAN :
          /\ p_etl_params' = e
          /\ eia_in_run' = eia
          /\ p_params' = validate_params(e)
          /\ flow_tasks' = IF eia THEN {DfsToSqlite} ELSE {}
          /\ status' = [t \in flow_tasks' |-> "pending"]
          /\ p_pc' = IF p_params'.raised THEN "rejected" ELSE "validated"
    /\ UNCHANGED <<edges, partitions, store, reruns, gathered>>
    /\ UNCHANGED <<norm_vars, stem_vars, extract_vars>>

ValidateParams == ValidateParamsOf(RunEtlParams)

ValidateAnyParams == ValidateParamsOf(EtlParams)

\* the tasks build adds to the flow for n partitions
build_tasks(n) == {Plants} \cup {PartitionTask(i) : i \in 1..n}

\* build without the EIA dependency
build_edges_without_eia(tasks, eia, n) ==
    {<<Plants, PartitionTask(i)>> : i \in 1..n}

\* the edges build declares: the EIA dependency of the reference-table load,
\* and the reference table as an input of every mapped partition task
build_edges(tasks, eia, n) ==
    (IF eia THEN {<<t, Plants>> : t \in get_tasks(tasks, "dfs_to_sqlite")} ELSE {})
        \cup {<<Plants, PartitionTask(i)>> : i \in 1..n}

\* EpaCemsPipeline.build(params)
Build ==
    /\ p_pc = "validated"
    /\ p_pc' = "built"
    /\ IF ~all_params_present(p_params)
       THEN UNCHANGED <<flow_tasks, edges, partitions, status>>
       ELSE /\ partitions' = build_partitions(p_params)
            /\ flow_tasks' = flow_tasks \cup build_tasks(Len(partitions'))
            /\ edges' = build_edges(flow_tasks, eia_in_run, Len(partitions'))
            /\ status' = [t \in flow_tasks' |-> "pending"]
    /\ UNCHANGED <<p_etl_params, eia_in_run, p_params, store, reruns, gathered>>
    /\ UNCHANGED <<norm_vars, stem_vars, extract_vars>>

\* the gather_partitions op, run on the years and states of the settings
\* (the defaults of its config schema when a key is absent)
GatherPartitions ==
    /\ p_pc = "validated"
    /\ gathered = <<>>
    /\ gathered' = gather_partitions(Get(p_etl_params, "epacems_years", <<2020>>),
                                     Get(p_etl_params, "epacems_states", <<ID>>))
    /\ gathered' # <<>>
    /\ UNCHANGED <<p_pc, p_etl_params, eia_in_run, p_params, flow_tasks,
                   edges, partitions, status, store, reruns>>
    /\ UNCHANGED <<norm_vars, stem_vars, extract_vars>>

(***************************************************************************)
(* epacems_process_partition                                               *)
(***************************************************************************)
\* DataFrame.assign(year=partition.year) on what get_data_frame gives
assign_year(r) ==
    IF r.exc # "none" THEN [exc |-> r.exc, df |-> NoDataset]
    ELSE [exc |-> "none",
          df |-> [column_set |-> r.value.column_set \cup {"year"},
                  rows |-> r.value.rows]]

\* extract: ds.get_data_frame(partition).assign(year=partition.year); the
\* task epacems_process_partition calls it as extract_epacems(partition,
\* datastore)
extract(ds_desc, partition) == assign_year(get_data_frame(ds_desc, partition))

\* pudl.transform.epacems.transform_epacems keeps the rows it is given
transform_epacems(df) == df

\* df["year"] = partition.year; df["state"] = partition.state on the
\* transformed frame: the dataset handed to epacems_to_parquet, with the
\* values of its year and state columns
add_year_state(partition, e) ==
    IF e.exc # "none"
    THEN [exc |-> e.exc, year |-> 0, state |-> <<>>, df |-> NoDataset]
    ELSE [exc |-> "none", year |-> partition.year, state |-> partition.state,
          df |-> [column_set |-> transform_epacems(e.df).column_set
                                     \cup {"year", "state"},
                  rows |-> transform_epacems(e.df).rows]]

\* the body of epacems_process_partition up to the load
process_partition(ds_desc, partition) ==
    add_year_state(partition, extract(ds_desc, partition))

\* pudl.load.parquet.epacems_to_parquet: the dataset replaces what the store
\* holds for its year and state
epacems_to_parquet(st, year, state, df) ==
    [k \in DOMAIN st \cup {<<year, state>>} |->
        IF k = <<year, state>> THEN df ELSE st[k]]

\* the load at the end of the task body, which a raised exception skips
load(st, r) ==
    IF r.exc # "none" THEN st
    ELSE epacems_to_parquet(st, r.year, r.state, r.df)

\* the state the executor gives the task run: failed when the body raised
task_state(r) == IF r.exc # "none" THEN "failed" ELSE "success"

\* the partitions a run can have, and what the body of the task does for
\* each of them on the datastore of the runs
RunPartitions ==
    {EpaCemsPartition(y, s) : y \in ConfigYears, s \in ConfigStates \cup cems_states}

partition_outcomes ==
    {[partition |-> p, outcome |-> process_partition(desc_of, p)] : p \in RunPartitions}

outcome_of(p) == (CHOOSE o \in partition_outcomes : o.partition = p).outcome

(***************************************************************************)
(* The run of the flow: a task starts when all its upstream tasks have     *)
(* succeeded; the mapped partition tasks are independent of each other.    *)
(***************************************************************************)
upstream(t) == {e[1] : e \in {f \in edges : f[2] = t}}

\* dfs_to_sqlite or load_plant_utc_offset starts
StartTask(t) ==
    /\ p_pc = "built"
    /\ t \in flow_tasks \cap {DfsToSqlite, Plants}
    /\ status[t] = "pending"
    /\ \A u \in upstream(t) : u \in flow_tasks /\ status[u] = "success"
    /\ status' = [status EXCEPT ![t] = "running"]
    /\ UNCHANGED <<p_pc, p_etl_params, eia_in_run, p_params, flow_tasks,
                   edges, partitions, store, reruns, gathered>>
    /\ UNCHANGED <<norm_vars, stem_vars, extract_vars>>

\* dfs_to_sqlite or load_plant_utc_offset completes
FinishTask(t) ==
    /\ p_pc = "built"
    /\ t \in flow_tasks \cap {DfsToSqlite, Plants}
    /\ status[t] = "running"
    /\ status' = [status EXCEPT ![t] = "success"]
    /\ UNCHANGED <<p_pc, p_etl_params, eia_in_run, p_params, flow_tasks,
                   edges, partitions, store, reruns, gathered>>
    /\ UNCHANGED <<norm_vars, stem_vars, extract_vars>>

\* the mapped task epacems_process_partition of the i-th partition runs:
\* it starts once its upstream tasks have succeeded, and ends as failed when
\* its body raises, as success after the load otherwise
ProcessPartition(i) ==
    /\ p_pc = "built"
    /\ i \in 1..Len(partitions)
    /\ status[PartitionTask(i)] = "pending"
    /\ \A u \in upstream(PartitionTask(i)) : u \in flow_tasks /\ status[u] = "success"
    /\ status' = [status EXCEPT
                      ![PartitionTask(i)] = task_state(outcome_of(partitions[i]))]
    /\ store' = load(store, outcome_of(partitions[i]))
    /\ UNCHANGED <<p_pc, p_etl_params, eia_in_run, p_params, flow_tasks,
                   edges, partitions, reruns, gathered>>
    /\ UNCHANGED <<norm_vars, stem_vars, extract_vars>>

\* a partition task that has succeeded is submitted again
RerunPartition(i) ==
    /\ p_pc = "built"
    /\ i \in 1..Len(partitions)
    /\ status[PartitionTask(i)] = "success"
    /\ reruns < MaxReruns
    /\ reruns' = reruns + 1
    /\ status' = [status EXCEPT ![PartitionTask(i)] = "pending"]
    /\ UNCHANGED <<p_pc, p_etl_params, eia_in_run, p_params, flow_tasks,
                   edges, partitions, store, gathered>>
    /\ UNCHANGED <<norm_vars, stem_vars, extract_vars>>

PipeNext ==
    \/ ValidateParams
    \/ Build
    \/ \E t \in {DfsToSqlite, Plants} : StartTask(t)
    \/ \E t \in {DfsToSqlite, Plants} : FinishTask(t)
    \/ \E i \in 1..MaxTasks : ProcessPartition(i)
    \/ \E i \in 1..MaxTasks : RerunPartition(i)

ConfigNext == ValidateAnyParams \/ Build \/ GatherPartitions

\* get_data_frame has been left, by return or by an exception
x_exited == x_pc \in {"returned", "raised"}

\* C14 as stated: the handles are open in nested order (the CSV only inside
\* the monthly zip, the monthly zip only inside the archive), so each is
\* closed no later than its parent, and when get_data_frame has been left,
\* by return or by an exception, no handle it opened is still open.
C14_HandlesNestedAllClosed ==
    /\ "csv" \in x_open => {"monthly_zipfile", "mzip", "archive"} \subseteq x_open
    /\ "mzip" \in x_open => "archive" \in x_open
    /\ "monthly_zipfile" \in x_open => "mzip" \in x_open
    /\ x_exited => x_open = {}

(***************************************************************************)
(* Calls of EpaCemsPartition.get_monthly_file: a partition is made, and    *)
(* the method is called on it with a month, then with another.  The last   *)
(* two calls are kept.                                                     *)
(***************************************************************************)
\* the months the method is called with: 1..12 and numbers on either side
Months == (0 - 1)..MaxMonth

NoCall == [month |-> 0, exc |-> "none", stem |-> <<>>]

\* what a call of get_monthly_file(month) gives: the method has no raise
\* statement and formatting an integer does not fail, so it returns
call_get_monthly_file(p, month) ==
    [month |-> month, exc |-> "none", stem |-> get_monthly_file(p, month)]

StemInit ==
    /\ m_pc = "idle"
    /\ m_partition = EpaCemsPartition(2020, ID)
    /\ m_prev = NoCall
    /\ m_last = NoCall

\* EpaCemsPartition(year=..., state=...)
MakePartition ==
    /\ m_pc = "idle"
    /\ \E p \in RunPartitions : m_partition' = p
    /\ m_pc' = "made"
    /\ UNCHANGED <<m_prev, m_last>>
    /\ UNCHANGED <<norm_vars, extract_vars, pipe_vars>>

\* partition.get_monthly_file(month)
GetMonthlyFile ==
    /\ m_pc \in {"made", "called"}
    /\ \E month \in Months :
          m_last' = call_get_monthly_file(m_partition, month)
    /\ m_prev' = m_last
    /\ m_pc' = IF m_pc = "made" THEN "called" ELSE "called_twice"
    /\ UNCHANGED m_partition
    /\ UNCHANGED <<norm_vars, extract_vars, pipe_vars>>

StemNext == MakePartition \/ GetMonthlyFile

called == m_pc \in {"called", "called_twice"}

\* C11 as stated: a call with a month outside 1..12 fails with InvalidMonth,
\* and a stem is returned only for a month in 1..12.
C11_InvalidMonthRaised ==
    called =>
        /\ m_last.month \notin 1..NumMonths => m_last.exc = "InvalidMonth"
        /\ m_last.exc = "none" => m_last.month \in 1..NumMonths

\* the value of a digit character, and the letter of the alphabet a
\* character is, in either case (0 when it is no letter)
DigitValue(c) == (CHOOSE k \in 1..10 : DigitChars[k] = c) - 1
LetterIndex(c) ==
    IF \E k \in 1..26 : c \in {UpperLetters[k], LowerLetters[k]}
    THEN CHOOSE k \in 1..26 : c \in {UpperLetters[k], LowerLetters[k]}
    ELSE 0

\* stem is {year}{lowercase(state)}{2-digit month} for a 4-digit year
MatchesPattern(stem, year, state, month) ==
    /\ Len(stem) = 4 + Len(state) + 2
    /\ \A i \in 1..4 : stem[i] \in SeqToSet(DigitChars)
    /\ year = 1000 * DigitValue(stem[1]) + 100 * DigitValue(stem[2])
                + 10 * DigitValue(stem[3]) + DigitValue(stem[4])
    /\ \A i \in 1..Len(state) :
          /\ stem[4 + i] \in SeqToSet(LowerLetters)
          /\ LetterIndex(stem[4 + i]) = LetterIndex(state[i])
    /\ stem[Len(stem) - 1] = DigitChars[(month \div 10) + 1]
    /\ stem[Len(stem)] = DigitChars[(month % 10) + 1]

\* C12: for the partition made, the stems of the months 1..12 are 12
\* different stems, two calls with different months in 1..12 return
\* different stems, and the stem of a month in 1..12 is the year, then the
\* state in lower case, then the month in two digits.
C12_StemInjectivePattern ==
    /\ m_pc # "idle" =>
          Cardinality({get_monthly_file(m_partition, m) : m \in 1..NumMonths})
              = NumMonths
    /\ (m_pc = "called_twice"
          /\ m_prev.month \in 1..NumMonths /\ m_last.month \in 1..NumMonths
          /\ m_prev.month # m_last.month) => m_prev.stem # m_last.stem
    /\ (called /\ m_last.month \in 1..NumMonths) =>
          /\ m_last.exc = "none"
          /\ MatchesPattern(m_last.stem, m_partition.year, m_partition.state,
                            m_last.month)

C12_Witness ==
    /\ m_pc = "called_twice"
    /\ m_partition = EpaCemsPartition(2020, ID)
    /\ m_prev.month = 1
    /\ m_prev.stem = <<"2","0","2","0","i","d","0","1">>
    /\ m_last.month = 12
    /\ m_last.stem = <<"2","0","2","0","i","d","1","2">>

(***************************************************************************)
(* Properties of validation and enumeration                                *)
(***************************************************************************)
NoRepeats(s) == \A i, j \in 1..Len(s) : s[i] = s[j] => i = j

\* ps is the product of the lists Y and S: one partition per pair of
\* positions, so a pair occurs as often as its year and its state are listed
IsProduct(ps, Y, S) ==
    /\ Len(ps) = Len(Y) * Len(S)
    /\ \A k \in 1..Len(ps) :
          ps[k].year \in SeqToSet(Y) /\ ps[k].state \in SeqToSet(S)
    /\ \A y \in SeqToSet(Y), st \in SeqToSet(S) :
          Occurrences(ps, EpaCemsPartition(y, st))
              = Occurrences(Y, y) * Occurrences(S, st)
    /\ (NoRepeats(Y) /\ NoRepeats(S)) =>
          \A y \in SeqToSet(Y), st \in SeqToSet(S) :
              Occurrences(ps, EpaCemsPartition(y, st)) = 1

\* the years and states the gather_partitions op is configured with
gather_years == Get(p_etl_params, "epacems_years", <<2020>>)
gather_states_config == Get(p_etl_params, "epacems_states", <<ID>>)

\* C1: the partitions build makes from the validated years and states, and
\* the partitions gather_partitions yields from its configured years and
\* states, are the full Cartesian product: as many partitions as the product
\* of the two lengths, and every (year, state) pair exactly once (once per
\* listing of its year and its state when a list names an entry twice).
C1_CartesianProduct ==
    /\ (p_pc = "built" /\ all_params_present(p_params)) =>
          IsProduct(partitions, p_params.epacems_years, p_params.epacems_states)
    /\ gathered # <<>> => IsProduct(gathered, gather_years, gather_states_config)

C1_Witness ==
    /\ p_pc = "built"
    /\ p_params.epacems_years = <<2019, 2020>>
    /\ p_params.epacems_states = <<ID, id>>
    /\ Len(partitions) = 4
    /\ NoRepeats(partitions)
    /\ gathered = partitions

\* the configured lists, as validate_params reads them
config_years == Get(p_etl_params, "epacems_years", <<>>)
config_states == Get(p_etl_params, "epacems_states", <<>>)

\* C4: when the years list or the expanded states list is empty,
\* validate_params returns None and does not raise (the outcome is "empty"),
\* and build adds no reference-table load, no partition task and no edge.
C4_EmptyOutcome ==
    (p_pc # "unvalidated"
        /\ (config_years = <<>> \/ expand_states(config_states) = <<>>)) =>
        /\ ~p_params.raised
        /\ p_params.none
        /\ validation_outcome(p_params) = "empty"
        /\ p_pc # "rejected"
        /\ p_pc = "built" =>
              /\ flow_tasks \subseteq {DfsToSqlite}
              /\ partitions = <<>>
              /\ edges = {}

C4_Witness ==
    /\ p_pc = "built"
    /\ config_years = <<2020>>
    /\ config_states = <<>>
    /\ p_params.none
    /\ Plants \notin flow_tasks
    /\ partitions = <<>>

\* C5 as stated: wherever "all" stands in the configured states list, the
\* resolved states are exactly the keys of the registry.
C5_AllAnywhereExpands ==
    (p_pc # "unvalidated" /\ config_years # <<>>
        /\ \E i \in 1..Len(config_states) : config_states[i] = all) =>
        /\ ~p_params.none
        /\ p_params.epacems_states = cems_states_sorted

\* C5: the states list expands to the sorted keys of the registry exactly
\* when its first element is "all" in any letter case, whatever follows it;
\* otherwise the list is kept as configured, an "all" at a later position
\* included.
C5_AllFirstExpands ==
    (p_pc # "unvalidated" /\ config_years # <<>> /\ config_states # <<>>) =>
        /\ ~p_params.none
        /\ Lower(config_states[1]) = all =>
              /\ p_params.epacems_states = cems_states_sorted
              /\ SeqToSet(p_params.epacems_states) = cems_states
        /\ Lower(config_states[1]) # all =>
              p_params.epacems_states = config_states

C5_Witness ==
    /\ p_pc = "validated"
    /\ config_states = <<All, id>>
    /\ p_params.epacems_states = <<ID, TX>>

\* the settings declare a partition scheme other than the fixed one
declares_other_scheme ==
    /\ "partition" \in DOMAIN p_etl_params
    /\ p_etl_params["partition"] # FixedPartition

\* the settings without their 'partition' key
settings_without_partition ==
    [k \in DOMAIN p_etl_params \ {"partition"} |-> p_etl_params[k]]

PartitionTasks == {PartitionTask(i) : i \in 1..Len(partitions)}

\* C2: with EIA in the run, the edge from dfs_to_sqlite to
\* load_plant_utc_offset is declared, load_plant_utc_offset has not begun
\* while dfs_to_sqlite has not succeeded, and neither has any partition
\* task; without EIA, load_plant_utc_offset has no upstream task.
C2_EiaBeforeCems ==
    (p_pc = "built" /\ Plants \in flow_tasks) =>
        /\ eia_in_run =>
              /\ <<DfsToSqlite, Plants>> \in edges
              /\ status[Plants] # "pending" => status[DfsToSqlite] = "success"
              /\ \A t \in PartitionTasks :
                    status[t] # "pending" => status[DfsToSqlite] = "success"
        /\ \A t \in PartitionTasks :
              status[t] # "pending" => status[Plants] = "success"
        /\ ~eia_in_run =>
              /\ upstream(Plants) = {}
              /\ DfsToSqlite \notin flow_tasks

C2_Witness ==
    /\ p_pc = "built"
    /\ eia_in_run
    /\ Plants \in flow_tasks
    /\ status[DfsToSqlite] = "success"
    /\ status[Plants] = "success"
    /\ \E t \in PartitionTasks : status[t] = "success"

\* the archive of the partition lacks a monthly zip
lacks_month(p) == get_key(p) = bad_key

\* the archive of the partition is in the datastore and is whole
whole_archive(p) == get_key(p) \in resource_keys \ {bad_key}

stored(p) == <<p.year, p.state>> \in DOMAIN store

\* C3: a partition whose archive lacks one monthly zip fails with
\* MissingMonthlyFile and leaves no dataset in the store; a partition whose
\* archive is whole never fails, can run whatever has become of the other
\* partitions, and has its dataset stored once it has succeeded.
C3_FailureIsolated ==
    p_pc = "built" =>
        \A i \in 1..Len(partitions) :
            LET p == partitions[i]
                t == PartitionTask(i)
            IN  /\ lacks_month(p) =>
                      /\ outcome_of(p).exc = "MissingMonthlyFile"
                      /\ status[t] \in {"pending", "failed"}
                      /\ ~stored(p)
                /\ whole_archive(p) =>
                      /\ status[t] \in {"pending", "success"}
                      /\ (status[t] = "pending" /\ status[Plants] = "success")
                            => ENABLED ProcessPartition(i)
                      /\ status[t] = "success" =>
                            stored(p) /\ store[<<p.year, p.state>>].rows # <<>>

C3_Witness ==
    /\ p_pc = "built"
    /\ \E i, j \in 1..Len(partitions) :
          /\ lacks_month(partitions[i])
          /\ status[PartitionTask(i)] = "failed"
          /\ whole_archive(partitions[j])
          /\ partitions[j].year = partitions[i].year
          /\ status[PartitionTask(j)] = "success"
          /\ stored(partitions[j])
    /\ \A t \in PartitionTasks : status[t] # "pending"

\* C7: two different partitions of a run have different mapping keys and
\* different task targets; and whatever was run again, the store holds for
\* a year and state the dataset one run of the task body hands to the load,
\* no row of it twice.
C7_UniqueKeyIdempotentRerun ==
    /\ \A i, j \in 1..Len(partitions) :
          partitions[i] # partitions[j] =>
              /\ mapping_key(partitions[i]) # mapping_key(partitions[j])
              /\ task_target(partitions[i]) # task_target(partitions[j])
    /\ \A k \in DOMAIN store :
          /\ store[k] = outcome_of(EpaCemsPartition(k[1], k[2])).df
          /\ NoRepeats(store[k].rows)

C7_Witness ==
    /\ p_pc = "built"
    /\ reruns > 0
    /\ Len(partitions) > 1
    /\ \A t \in PartitionTasks : status[t] = "success"
    /\ \A i \in 1..Len(partitions) :
          /\ stored(partitions[i])
          /\ Len(store[<<partitions[i].year, partitions[i].state>>].rows) = 6

\* no character of s is an upper-case letter
IsLowerCase(s) == \A i \in 1..Len(s) : s[i] \notin SeqToSet(UpperLetters)

\* s with every lower-case letter replaced by its upper-case letter
UpperCase(s) ==
    [i \in 1..Len(s) |->
        IF \E k \in 1..26 : LowerLetters[k] = s[i]
        THEN UpperLetters[CHOOSE k \in 1..26 : LowerLetters[k] = s[i]]
        ELSE s[i]]

\* C13 as stated: for every partition of a run the state is in lower case
\* in get_key, in get_filters and in the monthly file stem, and the state
\* the task writes to the state column, under which the dataset is stored,
\* is the state code in upper case.
C13_KeyLowerOutputUpper ==
    p_pc = "built" =>
        \A i \in 1..Len(partitions) :
            /\ IsLowerCase(get_key(partitions[i])[2])
            /\ IsLowerCase(get_filters(partitions[i]).state)
            /\ \A month \in 1..NumMonths :
                  IsLowerCase(get_monthly_file(partitions[i], month))
            /\ status[PartitionTask(i)] = "success" =>
                  /\ outcome_of(partitions[i]).state
                        = UpperCase(partitions[i].state)
                  /\ <<partitions[i].year, UpperCase(partitions[i].state)>>
                        \in DOMAIN store

(***************************************************************************)
(* Specifications                                                          *)
(***************************************************************************)
Init == NormInit /\ StemInit /\ ExtractInit /\ PipeInit

\* the pipeline
Spec == Init /\ [][PipeNext]_vars

\* validation and build on every settings, and the gather_partitions op
SpecConfig == Init /\ [][ConfigNext]_vars

\* the CSV normaliser
SpecNorm == Init /\ [][NormNext]_vars

\* get_data_frame
SpecExtract == Init /\ [][ExtractNext]_vars

\* get_monthly_file
SpecStem == Init /\ [][StemNext]_vars

====
